---- MODULE Spec2Model ----
(***************************************************************************)
(* Model of the similarity engine of bgg-collection-visualizer             *)
(* (src/src/similarity.py) and of its callers.                             *)
(*                                                                         *)
(* Python floats are modelled as binary floating point numbers with a      *)
(* MantBits-bit significand and round-to-nearest-even after every          *)
(* operation (CPython: IEEE-754 binary64, 53 bits).  The exponent is an    *)
(* unbounded integer: overflow, underflow, infinities and NaN do not occur *)
(* for the magnitudes of the inputs used here.                             *)
(***************************************************************************)
EXTENDS Integers, Sequences, FiniteSets, TLC

\* ------------------------------------------------------------------------
\* Bounds of the model
\* ------------------------------------------------------------------------

\* Width of the significand of a float (binary64 has 53).
MantBits == 11

\* ------------------------------------------------------------------------
\* Floating point arithmetic
\* ------------------------------------------------------------------------

Pow2(n) == 2 ^ n

Abs(n) == IF n < 0 THEN -n ELSE n

Sign(n) == IF n < 0 THEN -1 ELSE IF n > 0 THEN 1 ELSE 0

\* Number of bits of a natural number (0 for 0).
RECURSIVE BitLen(_)
BitLen(n) == IF n = 0 THEN 0 ELSE 1 + BitLen(n \div 2)

\* The float 0.0.
FZero == [m |-> 0, e |-> 0]

\* The float nearest to n * 2^e (ties to even), in canonical form:
\* either FZero, or 2^(MantBits-1) <= |m| < 2^MantBits.
Round(n, e) ==
    IF n = 0 THEN FZero
    ELSE LET a == Abs(n)
             len == BitLen(a)
         IN IF len <= MantBits
            THEN [m |-> Sign(n) * a * Pow2(MantBits - len), e |-> e - (MantBits - len)]
            ELSE LET sh == len - MantBits
                     q == a \div Pow2(sh)
                     r == a % Pow2(sh)
                     half == Pow2(sh - 1)
                     up == (r > half) \/ (r = half /\ q % 2 = 1)
                     q2 == IF up THEN q + 1 ELSE q
                 IN IF q2 = Pow2(MantBits)
                    THEN [m |-> Sign(n) * Pow2(MantBits - 1), e |-> e + sh + 1]
                    ELSE [m |-> Sign(n) * q2, e |-> e + sh]

\* float(n) for a Python int n.
FromInt(n) == Round(n, 0)

FOne == FromInt(1)

FNeg(a) == [m |-> -a.m, e |-> a.e]

\* a + b
FAdd(a, b) ==
    IF a.m = 0 THEN b
    ELSE IF b.m = 0 THEN a
    ELSE LET hi == IF a.e >= b.e THEN a ELSE b
             lo == IF a.e >= b.e THEN b ELSE a
             d == hi.e - lo.e
         IN IF d <= MantBits + 2
            THEN Round(hi.m * Pow2(d) + lo.m, lo.e)
            ELSE Round(hi.m * Pow2(MantBits + 2) + Sign(lo.m), hi.e - (MantBits + 2))

\* a - b
FSub(a, b) == FAdd(a, FNeg(b))

\* a * b
FMul(a, b) == Round(a.m * b.m, a.e + b.e)

\* a / b (b # 0): the quotient is taken with two guard bits and a sticky bit.
FDiv(a, b) ==
    IF a.m = 0 THEN FZero
    ELSE LET num == Abs(a.m) * Pow2(MantBits + 2)
             den == Abs(b.m)
             q == num \div den
             sticky == IF num % den # 0 /\ q % 2 = 0 THEN 1 ELSE 0
         IN Round(Sign(a.m) * Sign(b.m) * (q + sticky), a.e - b.e - (MantBits + 2))

\* Largest r with r * r <= n, by bisection on lo <= r < hi.
RECURSIVE ISqrtBetween(_, _, _)
ISqrtBetween(n, lo, hi) ==
    IF hi - lo <= 1 THEN lo
    ELSE LET mid == (lo + hi) \div 2
         IN IF mid * mid <= n THEN ISqrtBetween(n, mid, hi) ELSE ISqrtBetween(n, lo, mid)

ISqrt(n) == ISqrtBetween(n, 0, Pow2((BitLen(n) + 1) \div 2))

\* math.sqrt(a) for a >= 0.
FSqrt(a) ==
    IF a.m <= 0 THEN FZero
    ELSE LET k0 == MantBits + 3
             k == IF (a.e - k0) % 2 = 0 THEN k0 ELSE k0 + 1
             n == a.m * Pow2(k)
             s == ISqrt(n)
             sticky == IF s * s # n /\ s % 2 = 0 THEN 1 ELSE 0
         IN Round(s + sticky, (a.e - k) \div 2)

\* a < b, a <= b, a > b, a >= b
FLt(a, b) == FSub(a, b).m < 0

FLe(a, b) == FSub(a, b).m <= 0

FGt(a, b) == FLt(b, a)

FGe(a, b) == FLe(b, a)

\* float("n/d" written as a decimal literal): the float nearest to n / d.
FromRatio(n, d) == FDiv(FromInt(n), FromInt(d))

\* ------------------------------------------------------------------------
\* Python values
\* ------------------------------------------------------------------------

\* None
None == [t |-> "None"]

\* An int, a float written as the decimal n/d, and a str.
PyInt(n) == [t |-> "int", v |-> n]

PyFloat(n, d) == [t |-> "float", v |-> FromRatio(n, d)]

PyStr(s) == [t |-> "str", v |-> s]

\* An int beyond the range of a float (at least 2^1024), such as 10**400.
HugeInt == [t |-> "hugeint"]

\* d.get(key): the value, None when the key is absent.
Get(d, key) == IF key \in DOMAIN d THEN d[key] ELSE None

\* d.get(key, []) for the attribute lists of a game.
GetList(d, key) == IF key \in DOMAIN d THEN d[key] ELSE <<>>

\* A dict keeps its keys in insertion order: keys is that order, val the values.
EmptyDict == [keys |-> <<>>, val |-> <<>>]

Range(s) == {s[k] : k \in DOMAIN s}

KeySet(d) == Range(d.keys)

\* {**d1, **d2}: the keys of d1 in order, then the new keys of d2 in order;
\* a key of both takes the value of d2.
DictMerge(d1, d2) ==
    [keys |-> d1.keys \o SelectSeq(d2.keys, LAMBDA k : k \notin KeySet(d1)),
     val |-> [k \in KeySet(d1) \cup KeySet(d2) |->
                 IF k \in KeySet(d2) THEN d2.val[k] ELSE d1.val[k]]]

\* float(value) of a str: the strings that parse, with their values.
ParsableStrings == {"7.5"}

ParseFloat(s) == IF s = "7.5" THEN FromRatio(75, 10) ELSE FZero

\* float(value) raises OverflowError for an int beyond the range of a float;
\* the except clause catches ValueError and TypeError only.
CoerceRaises(value) == value.t = "hugeint"

\* try: float(value) if value is not None else 0.0
\* except (ValueError, TypeError): 0.0
CoerceFloat(value) ==
    CASE value.t = "None" -> FZero
      [] value.t = "int" -> FromInt(value.v)
      [] value.t = "float" -> value.v
      [] value.t = "str" -> IF value.v \in ParsableStrings THEN ParseFloat(value.v) ELSE FZero
      [] OTHER -> FZero

\* ------------------------------------------------------------------------
\* similarity.py
\* ------------------------------------------------------------------------

\* sum(xs) of a list of floats, left to right from 0.
RECURSIVE FSumUpTo(_, _)
FSumUpTo(xs, n) == IF n = 0 THEN FZero ELSE FAdd(FSumUpTo(xs, n - 1), xs[n])

FSum(xs) == FSumUpTo(xs, Len(xs))

\* A faulty variant: the case of two empty sets is missing.
jaccard_similarity_no_empty_case(set1, set2) ==
    IF set1 = {} \/ set2 = {} THEN FZero
    ELSE FDiv(FromInt(Cardinality(set1 \cap set2)), FromInt(Cardinality(set1 \cup set2)))

jaccard_similarity(set1, set2) ==
    IF set1 = {} /\ set2 = {} THEN FOne
    ELSE IF set1 = {} \/ set2 = {} THEN FZero
    ELSE LET intersection == Cardinality(set1 \cap set2)
             union == Cardinality(set1 \cup set2)
         IN IF union > 0 THEN FDiv(FromInt(intersection), FromInt(union)) ELSE FZero

cosine_similarity(vec1, vec2) ==
    IF Len(vec1) # Len(vec2) THEN FZero
    ELSE LET dot_product == FSum([k \in DOMAIN vec1 |-> FMul(vec1[k], vec2[k])])
             magnitude1 == FSqrt(FSum([k \in DOMAIN vec1 |-> FMul(vec1[k], vec1[k])]))
             magnitude2 == FSqrt(FSum([k \in DOMAIN vec2 |-> FMul(vec2[k], vec2[k])]))
         IN IF magnitude1 = FZero \/ magnitude2 = FZero THEN FZero
            ELSE FDiv(dot_product, FMul(magnitude1, magnitude2))

feature_names ==
    <<"averagerating", "averageweight", "playingtime", "minplayers",
      "maxplayers", "minage", "year">>

\* game_features[game_id]: the coerced values of one game, in feature order.
GameFeatures(game) == [f \in DOMAIN feature_names |-> CoerceFloat(Get(game, feature_names[f]))]

\* all_values[feature]: the coerced values of one feature, in key order.
AllValues(games, f) ==
    [k \in DOMAIN games.keys |-> CoerceFloat(Get(games.val[games.keys[k]], feature_names[f]))]

\* The first loop of normalize_numeric_features raises.
NormalizeRaises(games) ==
    \E k \in DOMAIN games.keys, f \in DOMAIN feature_names :
        CoerceRaises(Get(games.val[games.keys[k]], feature_names[f]))

\* mean = sum(values) / len(values) if values else 0.0
FeatureMean(values) ==
    IF Len(values) > 0 THEN FDiv(FSum(values), FromInt(Len(values))) ELSE FZero

\* variance = sum((x - mean) ** 2 for x in values) / len(values) if values else 0.0
FeatureVariance(values, mean) ==
    IF Len(values) > 0
    THEN FDiv(FSum([k \in DOMAIN values |->
                       FMul(FSub(values[k], mean), FSub(values[k], mean))]),
              FromInt(Len(values)))
    ELSE FZero

\* std = math.sqrt(variance) if variance > 0 else 1.0
FeatureStd(variance) == IF FGt(variance, FZero) THEN FSqrt(variance) ELSE FOne

\* means and stds, one entry per feature.
Means(games) == [f \in DOMAIN feature_names |-> FeatureMean(AllValues(games, f))]

Stds(games, means) ==
    [f \in DOMAIN feature_names |-> FeatureStd(FeatureVariance(AllValues(games, f), means[f]))]

\* normalized = [(features[i] - means[i]) / stds[i] for i in range(len(features))]
NormalizeWith(games, means, stds) ==
    [id \in KeySet(games) |->
        [f \in DOMAIN feature_names |->
            FDiv(FSub(GameFeatures(games.val[id])[f], means[f]), stds[f])]]

\* normalized_features: game id -> normalized vector.
normalize_numeric_features(games) ==
    LET means == Means(games)
        stds == Stds(games, means)
    IN NormalizeWith(games, means, stds)

\* str.lower() of an attribute name.
LowerCase(name) ==
    CASE name = "Dice" -> "dice"
      [] name = "Cards" -> "cards"
      [] name = "Tiles" -> "tiles"
      [] name = "Economic" -> "economic"
      [] name = "War" -> "war"
      [] name = "Knizia" -> "knizia"
      [] name = "Rosenberg" -> "rosenberg"
      [] name = "Kosmos" -> "kosmos"
      [] name = "Hans" -> "hans"
      [] OTHER -> name

\* A faulty variant: the names are lower-cased before they are compared.
AttrNamesLowerCased(game, attr) ==
    LET links == GetList(game, attr)
    IN {LowerCase(links[k].name) : k \in {n \in DOMAIN links :
                                             "name" \in DOMAIN links[n] /\ links[n].name # ""}}

\* set(m.get("name", "") for m in game.get(attr, []) if m.get("name"))
AttrNames(game, attr) ==
    LET links == GetList(game, attr)
    IN {links[k].name : k \in {n \in DOMAIN links :
                                  "name" \in DOMAIN links[n] /\ links[n].name # ""}}

\* The weights of compute_game_similarity, in parameter order.
DefaultWeights ==
    [mechanics |-> FromRatio(4, 10), categories |-> FromRatio(25, 100),
     numeric |-> FromRatio(2, 10), designers |-> FromRatio(1, 10),
     publishers |-> FromRatio(5, 100)]

\* The five component similarities of two games.
Components(game1, game2, normalized_features1, normalized_features2) ==
    [mechanics |-> jaccard_similarity(AttrNames(game1, "mechanics"), AttrNames(game2, "mechanics")),
     categories |-> jaccard_similarity(AttrNames(game1, "categories"), AttrNames(game2, "categories")),
     numeric |-> cosine_similarity(normalized_features1, normalized_features2),
     designers |-> jaccard_similarity(AttrNames(game1, "designers"), AttrNames(game2, "designers")),
     publishers |-> jaccard_similarity(AttrNames(game1, "publishers"), AttrNames(game2, "publishers"))]

\* The weighted combination of the components.
WeightedCombination(c, w) ==
    LET total_weight ==
            FAdd(FAdd(FAdd(FAdd(w.mechanics, w.categories), w.numeric), w.designers), w.publishers)
        weighted ==
            FAdd(FAdd(FAdd(FAdd(FMul(w.mechanics, c.mechanics),
                                FMul(w.categories, c.categories)),
                           FMul(w.numeric, c.numeric)),
                      FMul(w.designers, c.designers)),
                 FMul(w.publishers, c.publishers))
    IN FDiv(weighted, total_weight)

compute_game_similarity(game1, game2, normalized_features1, normalized_features2, w) ==
    WeightedCombination(Components(game1, game2, normalized_features1, normalized_features2), w)

\* list.sort(key=..., reverse=True): a stable sort, highest key first.
\* keys[n] is the sort key of the n-th element; the result lists the indices
\* of the elements in sorted order.  InsertByKey puts index n after every
\* index whose key is >= keys[n].
RECURSIVE InsertByKey(_, _, _)
InsertByKey(sorted, n, keys) ==
    IF sorted = <<>> THEN <<n>>
    ELSE IF FGe(keys[Head(sorted)], keys[n])
         THEN <<Head(sorted)>> \o InsertByKey(Tail(sorted), n, keys)
         ELSE <<n>> \o sorted

RECURSIVE SortedIndicesUpTo(_, _)
SortedIndicesUpTo(keys, n) ==
    IF n = 0 THEN <<>> ELSE InsertByKey(SortedIndicesUpTo(keys, n - 1), n, keys)

\* A faulty variant: reverse=True is missing, the lowest key comes first.
SortAscByKey(xs, keys) ==
    LET order == SortedIndicesUpTo(keys, Len(xs))
    IN [k \in DOMAIN xs |-> xs[order[Len(xs) + 1 - k]]]

SortDescByKey(xs, keys) ==
    LET order == SortedIndicesUpTo(keys, Len(xs))
    IN [k \in DOMAIN xs |-> xs[order[k]]]

\* A faulty variant: one element too many.
TakeOneMore(xs, k) == SubSeq(xs, 1, IF k + 1 < Len(xs) THEN k + 1 ELSE Len(xs))

\* xs[:k]
Take(xs, k) == SubSeq(xs, 1, IF k < Len(xs) THEN k ELSE Len(xs))

\* ------------------------------------------------------------------------
\* Inputs
\* ------------------------------------------------------------------------

\* Largest number of games in a mapping given to the normalizer, the
\* pairwise similarity and the edge builder.
MaxGames == 3

\* A link object of a game's attribute list, and one without a name.
Link(name) == [id |-> "0", name |-> name]

NoName == [id |-> "0"]

\* Game records as _extract_game_details builds them, and degenerate ones.
GameA ==
    [name |-> "Alpha",
     mechanics |-> <<Link("Dice"), Link("Cards")>>,
     categories |-> <<Link("Economic")>>,
     designers |-> <<Link("Knizia")>>,
     publishers |-> <<Link("Kosmos")>>,
     averagerating |-> PyFloat(1, 10), averageweight |-> None,
     playingtime |-> PyInt(30), minplayers |-> None, maxplayers |-> None,
     minage |-> None, year |-> PyInt(2017)]

\* GameA with its mechanics in lower case and another playing time.
GameB ==
    [name |-> "Beta",
     mechanics |-> <<Link("dice"), Link("cards")>>,
     categories |-> <<Link("Economic")>>,
     designers |-> <<Link("Knizia")>>,
     publishers |-> <<Link("Kosmos")>>,
     averagerating |-> PyFloat(1, 10), averageweight |-> None,
     playingtime |-> PyInt(60), minplayers |-> None, maxplayers |-> None,
     minage |-> None, year |-> PyInt(2017)]

\* Blank and missing names, absent numeric fields, an unparsable year.
GameC ==
    [name |-> "Gamma",
     mechanics |-> <<Link("Dice"), Link(""), NoName, Link("Cards")>>,
     categories |-> <<Link("")>>,
     designers |-> <<>>,
     publishers |-> <<NoName>>,
     averagerating |-> PyFloat(1, 10), year |-> PyStr("N/A")]

\* Nothing in common with GameA.
GameD ==
    [name |-> "Delta",
     mechanics |-> <<Link("Tiles")>>,
     categories |-> <<Link("War")>>,
     designers |-> <<Link("Rosenberg")>>,
     publishers |-> <<Link("Hans")>>,
     averagerating |-> PyFloat(73, 10), averageweight |-> None,
     playingtime |-> PyInt(120), minplayers |-> None, maxplayers |-> None,
     minage |-> None, year |-> PyInt(1995)]

\* A record with a name only.
GameE == [name |-> ""]

\* GameA by another designer, with another rating.
GameF ==
    [name |-> "Phi",
     mechanics |-> <<Link("Dice"), Link("Cards")>>,
     categories |-> <<Link("Economic")>>,
     designers |-> <<Link("Rosenberg")>>,
     publishers |-> <<Link("Kosmos")>>,
     averagerating |-> PyFloat(73, 10), averageweight |-> None,
     playingtime |-> PyInt(30), minplayers |-> None, maxplayers |-> None,
     minage |-> None, year |-> PyInt(2017)]

\* A record whose year is an int of 400 digits.
GameHuge == [name |-> "Huge", year |-> HugeInt]

GameRecords == {GameA, GameB, GameC, GameD, GameE, GameF}

\* The records given to the normalizer called on its own.
NormalizerRecords == {GameA, GameC, GameD, GameE, GameHuge}

\* The ids of the games of a mapping, in insertion order.
GameIdOrder == <<"1", "2", "3", "4", "5">>

\* The mappings of n games with the first n ids and records of rs.
DictsOfSize(n, rs) ==
    {[keys |-> SubSeq(GameIdOrder, 1, n), val |-> v] :
        v \in [{GameIdOrder[k] : k \in 1..n} -> rs]}

GameDicts == UNION {DictsOfSize(n, GameRecords) : n \in 0..MaxGames}

NormalizerDicts == UNION {DictsOfSize(n, NormalizerRecords) : n \in 0..MaxGames}

\* Weights: the defaults, the numeric component alone, and equal weights.
WeightChoices ==
    {DefaultWeights,
     [mechanics |-> FZero, categories |-> FZero, numeric |-> FOne,
      designers |-> FZero, publishers |-> FZero],
     [mechanics |-> FOne, categories |-> FOne, numeric |-> FOne,
      designers |-> FOne, publishers |-> FOne]}

\* Largest numbers of owned games and of candidate games given to the
\* cross-set recommender, and largest top_k below the default.
MaxOwned == 2

MaxCandidates == 3

MaxTopK == 2

\* top_k: int = 5
DefaultTopK == 5

\* The records of the recommender's inputs.
CrossRecords == {GameA, GameD, GameF}

\* The records of the owned games.
OwnedRecords == {GameA, GameD}

OwnedDicts == UNION {DictsOfSize(n, OwnedRecords) : n \in 0..MaxOwned}

\* The ids of candidate mappings, in insertion order: "1" and "2" may also
\* be owned.
CandidateIdOrder == <<"3", "1", "4", "2", "5">>

\* The sub-sequences of the first MaxCandidates ids of CandidateIdOrder.
CandidateKeys ==
    {SelectSeq(SubSeq(CandidateIdOrder, 1, MaxCandidates), LAMBDA k : k \in ks) :
        ks \in SUBSET {CandidateIdOrder[n] : n \in 1..MaxCandidates}}

CandidateDicts ==
    UNION {{[keys |-> ks, val |-> v] : v \in [Range(ks) -> CrossRecords]} : ks \in CandidateKeys}

TopKChoices == (1..MaxTopK) \cup {DefaultTopK}

\* edge_threshold: the default 0.35, and 0.0 and 0.8.
DefaultEdgeThreshold == FromRatio(35, 100)

ThresholdChoices == {DefaultEdgeThreshold, FZero, FromRatio(8, 10)}

\* The names of the sets given to jaccard_similarity.
NameUniverse == {"Dice", "dice", "Cards", "Tiles"}

\* ------------------------------------------------------------------------
\* State
\* ------------------------------------------------------------------------

VARIABLES
    pc,                  \* position of the running call
    set1, set2,          \* jaccard_similarity: arguments
    jaccard,             \* jaccard_similarity: result
    games,               \* normalizer, edge builder: the games mapping
    weights,             \* the five weights
    normalized_features, \* game id -> normalized vector
    means, stds,         \* normalize_numeric_features: per-feature statistics
    id1, id2,            \* the two games being compared
    names1, names2,      \* compute_game_similarity: attribute name sets
    components,          \* compute_game_similarity: component similarities
    similarity,          \* compute_game_similarity: result
    edge_threshold,      \* compute_similarity_edges: argument
    game_ids,            \* compute_similarity_edges: list(games.keys())
    i, j,                \* compute_similarity_edges: loop indices (from 0)
    comparisons,         \* compute_similarity_edges: counter
    evaluated,           \* history: the (id1, id2, similarity) computed so far
    edges,               \* compute_similarity_edges: the edge list
    owned_games,         \* compute_cross_similarities: argument
    candidate_games,     \* compute_cross_similarities: argument
    top_k,               \* compute_cross_similarities: argument
    owned_index,         \* compute_cross_similarities: owned games done
    scored,              \* history: owned id -> candidates_with_scores before the sort
    recommendations,     \* compute_cross_similarities: result
    error,               \* the exception that left the running call ("" for none)
    caller,              \* the function of bgg.py that was called
    limit,               \* search_games: argument
    max_retries,         \* _request_with_retry: argument, then the local
    attempt,             \* _request_with_retry: loop variable
    trace,               \* history: the requests and sleeps of the _request_with_retry call
    root,                \* the value _request_with_retry returned
    result,              \* the value the called function returned
    batch_size,          \* get_things: argument
    all_details,         \* get_things: the mapping built so far
    batches,             \* history: the batches requested, each with the root it got
    search_terms,        \* generate_recommendations: argument
    candidates_per_term, \* generate_recommendations: argument
    max_candidates,      \* generate_recommendations: argument
    term_index,          \* generate_recommendations: search terms done
    searches,            \* history: the search_results of each term
    things_calls,        \* history: the id lists passed to get_things
    cross_calls          \* history: the candidate_details passed to compute_cross_similarities

jaccardVars == <<set1, set2, jaccard>>

simVars == <<games, weights, normalized_features, means, stds, id1, id2,
             names1, names2, components, similarity>>

edgeVars == <<edge_threshold, game_ids, i, j, comparisons, evaluated, edges>>

crossVars == <<owned_games, candidate_games, top_k, owned_index, scored, recommendations>>

retryVars == <<max_retries, attempt, trace, root>>

callVars == <<error, caller, limit, result>>

thingVars == <<batch_size, all_details, batches>>

recVars == <<search_terms, candidates_per_term, max_candidates, term_index,
             searches, things_calls, cross_calls>>

ioVars == <<callVars, retryVars, thingVars, recVars>>

vars == <<pc, jaccardVars, simVars, edgeVars, crossVars, ioVars>>

\* A variable that has not been assigned.
Unset == [t |-> "unset"]

JaccardUnset == set1 = {} /\ set2 = {} /\ jaccard = Unset

PairUnset ==
    /\ id1 = Unset /\ id2 = Unset /\ names1 = Unset /\ names2 = Unset
    /\ components = Unset /\ similarity = Unset

NormalizerUnset == normalized_features = Unset /\ means = Unset /\ stds = Unset

SimUnset == games = EmptyDict /\ weights = DefaultWeights /\ NormalizerUnset /\ PairUnset

EdgesUnset ==
    /\ edge_threshold = Unset /\ game_ids = Unset /\ i = 0 /\ j = 0
    /\ comparisons = 0 /\ evaluated = <<>> /\ edges = Unset

CrossUnset ==
    /\ owned_games = EmptyDict /\ candidate_games = EmptyDict /\ top_k = 0
    /\ owned_index = 0 /\ scored = EmptyDict /\ recommendations = Unset

RetryUnset == max_retries = Unset /\ attempt = 0 /\ trace = <<>> /\ root = Unset

ClientUnset == caller = "" /\ limit = Unset /\ result = Unset

ThingsUnset == batch_size = 0 /\ all_details = Unset /\ batches = <<>>

RecsUnset ==
    /\ search_terms = <<>> /\ candidates_per_term = 0 /\ max_candidates = 0
    /\ term_index = 0 /\ searches = <<>> /\ things_calls = <<>> /\ cross_calls = <<>>

IoUnset == error = "" /\ RetryUnset /\ ClientUnset /\ ThingsUnset /\ RecsUnset

\* A faulty variant: the mapping is replaced by one that holds the new key only.
DictSetAlone(d, key, value) == [keys |-> <<key>>, val |-> [k \in {key} |-> value]]

\* dict[key] = value: a new key is appended to the insertion order.
DictSet(d, key, value) ==
    [keys |-> IF key \in KeySet(d) THEN d.keys ELSE Append(d.keys, key),
     val |-> [k \in KeySet(d) \cup {key} |-> IF k = key THEN value ELSE d.val[k]]]

\* ------------------------------------------------------------------------
\* jaccard_similarity, called on two sets
\* ------------------------------------------------------------------------

InitJaccard ==
    /\ pc = "jaccard_call"
    /\ set1 \in SUBSET NameUniverse
    /\ set2 \in SUBSET NameUniverse
    /\ jaccard = Unset
    /\ SimUnset /\ EdgesUnset /\ CrossUnset /\ IoUnset

JaccardCall ==
    /\ pc = "jaccard_call"
    /\ jaccard' = jaccard_similarity(set1, set2)
    /\ pc' = "jaccard_done"
    /\ UNCHANGED <<set1, set2, simVars, edgeVars, crossVars, ioVars>>

NextJaccard == JaccardCall

SpecJaccard == InitJaccard /\ [][NextJaccard]_vars

\* ------------------------------------------------------------------------
\* normalize_numeric_features on a mapping, then compute_game_similarity
\* on two of its games
\* ------------------------------------------------------------------------

InitSim ==
    /\ pc = "normalize_call"
    /\ games \in GameDicts
    /\ weights \in WeightChoices
    /\ NormalizerUnset /\ PairUnset
    /\ JaccardUnset /\ EdgesUnset /\ CrossUnset /\ IoUnset

Normalize ==
    /\ pc = "normalize_call"
    /\ means' = Means(games)
    /\ stds' = Stds(games, means')
    /\ normalized_features' = NormalizeWith(games, means', stds')
    /\ pc' = "similarity_call"
    /\ UNCHANGED <<games, weights, id1, id2, names1, names2, components, similarity,
                   jaccardVars, edgeVars, crossVars, ioVars>>

Attrs == {"mechanics", "categories", "designers", "publishers"}

ComputeSimilarity ==
    /\ pc = "similarity_call"
    /\ \E a \in KeySet(games), b \in KeySet(games) :
          LET game1 == games.val[a]
              game2 == games.val[b]
          IN /\ id1' = a
             /\ id2' = b
             /\ names1' = [at \in Attrs |-> AttrNames(game1, at)]
             /\ names2' = [at \in Attrs |-> AttrNames(game2, at)]
             /\ components' = Components(game1, game2, normalized_features[a],
                                         normalized_features[b])
             /\ similarity' = WeightedCombination(components', weights)
    /\ pc' = "similarity_done"
    /\ UNCHANGED <<games, weights, normalized_features, means, stds,
                   jaccardVars, edgeVars, crossVars, ioVars>>

NextSim == Normalize \/ ComputeSimilarity

SpecSim == InitSim /\ [][NextSim]_vars

\* ------------------------------------------------------------------------
\* normalize_numeric_features, called on a mapping
\* ------------------------------------------------------------------------

InitNormalizer ==
    /\ pc = "normalizer_call"
    /\ games \in NormalizerDicts
    /\ weights = DefaultWeights
    /\ NormalizerUnset /\ PairUnset
    /\ JaccardUnset /\ EdgesUnset /\ CrossUnset /\ IoUnset

\* The call returns normalized_features, or an exception of the first loop
\* leaves it.
NormalizerCall ==
    /\ pc = "normalizer_call"
    /\ IF NormalizeRaises(games)
       THEN /\ error' = "OverflowError"
            /\ pc' = "normalizer_raised"
            /\ UNCHANGED <<means, stds, normalized_features>>
       ELSE /\ means' = Means(games)
            /\ stds' = Stds(games, means')
            /\ normalized_features' = NormalizeWith(games, means', stds')
            /\ pc' = "normalizer_returned"
            /\ UNCHANGED error
    /\ UNCHANGED <<games, weights, id1, id2, names1, names2, components, similarity,
                   caller, limit, result, retryVars, thingVars, recVars,
                   jaccardVars, edgeVars, crossVars>>

NextNormalizer == NormalizerCall

SpecNormalizer == InitNormalizer /\ [][NextNormalizer]_vars

\* ------------------------------------------------------------------------
\* compute_similarity_edges
\* ------------------------------------------------------------------------

InitEdges ==
    /\ pc = "edges_call"
    /\ games \in GameDicts
    /\ edge_threshold \in ThresholdChoices
    /\ weights = DefaultWeights
    /\ game_ids = Unset /\ i = 0 /\ j = 0 /\ comparisons = 0
    /\ evaluated = <<>> /\ edges = Unset
    /\ NormalizerUnset /\ PairUnset
    /\ JaccardUnset /\ CrossUnset /\ IoUnset

\* A faulty variant: the inner loop starts at i.
InnerStartAtOuter(outer) == outer

\* for j in range(i + 1, n_games): the first j.
InnerStart(outer) == outer + 1

\* game_ids, n_games, normalized_features and the empty edge list.
EdgesStart ==
    /\ pc = "edges_call"
    /\ game_ids' = games.keys
    /\ normalized_features' = normalize_numeric_features(games)
    /\ edges' = <<>>
    /\ comparisons' = 0
    /\ i' = 0
    /\ pc' = "edges_outer"
    /\ UNCHANGED <<games, weights, means, stds, id1, id2, names1, names2, components,
                   similarity, edge_threshold, j, evaluated, jaccardVars, crossVars, ioVars>>

\* for i in range(n_games): one more i.
EdgesOuter ==
    /\ pc = "edges_outer"
    /\ i < Len(game_ids)
    /\ j' = InnerStart(i)
    /\ pc' = "edges_inner"
    /\ UNCHANGED <<simVars, edge_threshold, game_ids, i, comparisons, evaluated, edges,
                   jaccardVars, crossVars, ioVars>>

\* The body of the inner loop for one j.
EdgesCompare ==
    /\ pc = "edges_inner"
    /\ j < Len(game_ids)
    /\ LET a == game_ids[i + 1]
           b == game_ids[j + 1]
       IN evaluated' = Append(evaluated,
              <<a, b, compute_game_similarity(games.val[a], games.val[b],
                                              normalized_features[a], normalized_features[b],
                                              weights)>>)
    /\ LET edge == evaluated'[Len(evaluated')]
       IN edges' = IF FGe(edge[3], edge_threshold) THEN Append(edges, edge) ELSE edges
    /\ comparisons' = comparisons + 1
    /\ j' = j + 1
    /\ UNCHANGED <<pc, simVars, edge_threshold, game_ids, i, jaccardVars, crossVars, ioVars>>

\* The inner loop is exhausted: next i.
EdgesInnerDone ==
    /\ pc = "edges_inner"
    /\ j >= Len(game_ids)
    /\ i' = i + 1
    /\ pc' = "edges_outer"
    /\ UNCHANGED <<simVars, edge_threshold, game_ids, j, comparisons, evaluated, edges,
                   jaccardVars, crossVars, ioVars>>

\* edges.sort(key=lambda x: x[2], reverse=True); return edges
EdgesSort ==
    /\ pc = "edges_outer"
    /\ i >= Len(game_ids)
    /\ edges' = SortDescByKey(edges, [k \in DOMAIN edges |-> edges[k][3]])
    /\ pc' = "edges_done"
    /\ UNCHANGED <<simVars, edge_threshold, game_ids, i, j, comparisons, evaluated,
                   jaccardVars, crossVars, ioVars>>

NextEdges == EdgesStart \/ EdgesOuter \/ EdgesCompare \/ EdgesInnerDone \/ EdgesSort

SpecEdges == InitEdges /\ [][NextEdges]_vars

\* ------------------------------------------------------------------------
\* compute_cross_similarities
\* ------------------------------------------------------------------------

InitCross ==
    /\ pc = "cross_call"
    /\ owned_games \in OwnedDicts
    /\ candidate_games \in CandidateDicts
    /\ top_k \in TopKChoices
    /\ owned_index = 0 /\ scored = EmptyDict /\ recommendations = Unset
    /\ SimUnset /\ JaccardUnset /\ EdgesUnset /\ IoUnset

\* A faulty variant: no candidate is taken as owned.
IsOwnedNever(candidate_id, owned) == FALSE

\* if candidate_id in owned_games: continue
IsOwned(candidate_id, owned) == candidate_id \in KeySet(owned)

\* The entry appended to candidates_with_scores.
CandidateEntry(owned_id, candidate_id, owned, candidates, nf, w) ==
    LET candidate_game == candidates.val[candidate_id]
    IN [id |-> candidate_id,
        name |-> IF "name" \in DOMAIN candidate_game THEN candidate_game.name ELSE "",
        score |-> compute_game_similarity(owned.val[owned_id], candidate_game,
                                          nf[owned_id], nf[candidate_id], w),
        bggUrl |-> <<"https://boardgamegeek.com/boardgame/", candidate_id>>]

\* A faulty variant: the candidates that are owned are not skipped.
CandidatesWithScoresUnfiltered(owned_id, owned, candidates, nf, w) ==
    [k \in DOMAIN candidates.keys |->
        CandidateEntry(owned_id, candidates.keys[k], owned, candidates, nf, w)]

\* candidates_with_scores of one owned game, before the sort.
CandidatesWithScores(owned_id, owned, candidates, nf, w) ==
    LET eligible == SelectSeq(candidates.keys, LAMBDA c : ~IsOwned(c, owned))
    IN [k \in DOMAIN eligible |->
          CandidateEntry(owned_id, eligible[k], owned, candidates, nf, w)]

\* all_games, normalized_features and the empty result.
CrossStart ==
    /\ pc = "cross_call"
    /\ normalized_features' = normalize_numeric_features(DictMerge(owned_games, candidate_games))
    /\ recommendations' = EmptyDict
    /\ owned_index' = 0
    /\ pc' = "cross_loop"
    /\ UNCHANGED <<games, weights, means, stds, id1, id2, names1, names2, components,
                   similarity, owned_games, candidate_games, top_k, scored,
                   jaccardVars, edgeVars, ioVars>>

\* The body of the loop over owned_games.items() for one owned game.
CrossOwned ==
    /\ pc = "cross_loop"
    /\ owned_index < Len(owned_games.keys)
    /\ LET owned_id == owned_games.keys[owned_index + 1]
       IN /\ scored' = DictSet(scored, owned_id,
                               CandidatesWithScores(owned_id, owned_games, candidate_games,
                                                    normalized_features, weights))
          /\ LET candidates_with_scores == scored'.val[owned_id]
                 sorted == SortDescByKey(candidates_with_scores,
                                         [k \in DOMAIN candidates_with_scores |->
                                             candidates_with_scores[k].score])
             IN recommendations' = DictSet(recommendations, owned_id, Take(sorted, top_k))
    /\ owned_index' = owned_index + 1
    /\ UNCHANGED <<pc, simVars, owned_games, candidate_games, top_k, jaccardVars, edgeVars, ioVars>>

\* return recommendations
CrossReturn ==
    /\ pc = "cross_loop"
    /\ owned_index >= Len(owned_games.keys)
    /\ pc' = "cross_done"
    /\ UNCHANGED <<simVars, crossVars, jaccardVars, edgeVars, ioVars>>

NextCross == CrossStart \/ CrossOwned \/ CrossReturn

SpecCross == InitCross /\ [][NextCross]_vars

\* ------------------------------------------------------------------------
\* bgg.py: the upstream service
\* ------------------------------------------------------------------------

RETRY_DELAY == FromRatio(3, 2)

MAX_RETRIES == 3

SEARCH_MAX_RETRIES == 5

\* The most items of a response body.
MaxItems == 2

\* The largest max_retries passed to _request_with_retry directly.
MaxDirectRetries == 2

\* A response body: an XML document with its item elements, or bytes that
\* ET.fromstring rejects.
Xml(items) == [t |-> "xml", items |-> items]

NotXml == [t |-> "garbage"]

\* What one requests.get call does: a response with a status, or an exception.
Response(status, content) == [status |-> status, content |-> content]

Raised(exception) == [exception |-> exception]

\* The item elements of the collection and search endpoints. An attribute or
\* child element that is absent is no field of the item; a field that is None
\* is an element without the text or value read from it.
CollectionItems ==
    { [objectid |-> PyStr("1"), name |-> PyStr("Azul"), yearpublished |-> PyStr("2017"),
       thumbnail |-> PyStr("a.png")],
      [objectid |-> PyStr("2")],
      [objectid |-> PyStr(""), name |-> PyStr("Blank")],
      [name |-> None, yearpublished |-> PyStr("1995")] }

SearchItems ==
    { [id |-> PyStr("1"), name |-> PyStr("Azul"), yearpublished |-> PyStr("2017")],
      [id |-> PyStr("2"), name |-> PyStr("Brass")],
      [id |-> PyStr("3"), name |-> PyStr("")],
      [id |-> PyStr("4")],
      [name |-> PyStr("Nameless"), yearpublished |-> None] }

SeqsUpTo(n, S) == UNION {[1..k -> S] : k \in 0..n}

Documents(items) == {Xml(d) : d \in SeqsUpTo(MaxItems, items)}

\* Every outcome of one request: status 200 with a document or with garbage,
\* status 202, another status, a timeout, another request error.
Outcomes(items) ==
    {Response(200, c) : c \in Documents(items) \cup {NotXml}}
    \cup {Response(202, NotXml), Response(503, NotXml)}
    \cup {Raised("Timeout"), Raised("RequestException")}

\* The exception raised inside the try block for an outcome ("" for none):
\* requests.get raises, or ET.fromstring raises on the content of a 200.
ExceptionOf(outcome) ==
    IF "exception" \in DOMAIN outcome THEN outcome.exception
    ELSE IF outcome.status = 200 /\ outcome.content.t # "xml" THEN "ParseError"
    ELSE ""

\* The attempt returns root.
Succeeds(outcome) == ExceptionOf(outcome) = "" /\ outcome.status = 200

\* delay = RETRY_DELAY * (2 ** attempt)
RetryDelay(k) == FMul(RETRY_DELAY, FromInt(2 ^ k))

\* time.sleep(delay) is reached after the outcome of attempt k: always in the
\* two status branches, before a further attempt only in the except clauses.
SleepsAfter(outcome, k, n) ==
    IF Succeeds(outcome) THEN FALSE
    ELSE IF ExceptionOf(outcome) = "" THEN TRUE
    ELSE k < n - 1

\* A faulty variant: the loop runs while attempt <= max_retries.
InRangeInclusive(k, n) == k <= n

\* attempt in range(max_retries)
InRange(k, n) == k < n

RequestEvent(outcome) == [event |-> "request", outcome |-> outcome]

SleepEvent(delay) == [event |-> "sleep", delay |-> delay]

\* if value: of None and of a str
Truthy(value) == value.t = "str" /\ value.v # ""

\* elem.text or elem.get("value") if elem is not None else default
TextOr(item, tag, default) == IF tag \in DOMAIN item THEN item[tag] ELSE default

\* get_collection: the entry appended for an item.
CollectionEntry(item) ==
    [id |-> Get(item, "objectid"),
     name |-> TextOr(item, "name", PyStr("")),
     year |-> TextOr(item, "yearpublished", None),
     thumbnail |-> TextOr(item, "thumbnail", None)]

RECURSIVE CollectionOf(_)
CollectionOf(items) ==
    IF items = <<>> THEN <<>>
    ELSE LET item == items[Len(items)]
             before == CollectionOf(SubSeq(items, 1, Len(items) - 1))
         IN  IF Truthy(Get(item, "objectid")) THEN Append(before, CollectionEntry(item))
             ELSE before

\* search_games: the entry appended for an item.
SearchEntry(item) ==
    [id |-> Get(item, "id"),
     name |-> TextOr(item, "name", PyStr("")),
     year |-> TextOr(item, "yearpublished", None)]

RECURSIVE SearchResultsOf(_)
SearchResultsOf(items) ==
    IF items = <<>> THEN <<>>
    ELSE LET item == items[Len(items)]
             before == SearchResultsOf(SubSeq(items, 1, Len(items) - 1))
         IN  IF Truthy(Get(item, "id")) /\ Truthy(TextOr(item, "name", PyStr("")))
             THEN Append(before, SearchEntry(item))
             ELSE before

\* search_games after the request: [] for None, else the entries of items[:limit].
search_games_result(r, lim) ==
    IF r = None THEN <<>> ELSE SearchResultsOf(Take(r.items, lim))

\* get_collection after the request.
get_collection_result(r) == IF r = None THEN <<>> ELSE CollectionOf(r.items)

\* The items the endpoint of a caller can send.
ItemsFor(c) == IF c = "get_collection" THEN CollectionItems ELSE SearchItems

\* ------------------------------------------------------------------------
\* _request_with_retry, called directly, by get_collection and by search_games
\* ------------------------------------------------------------------------

LimitChoices == {0, 1, 25}

InitRetry ==
    /\ pc = "client_call"
    /\ caller \in {"_request_with_retry", "get_collection", "search_games"}
    /\ limit \in IF caller = "search_games" THEN LimitChoices ELSE {Unset}
    /\ max_retries \in IF caller = "_request_with_retry"
                       THEN {None} \cup {PyInt(n) : n \in 0..MaxDirectRetries}
                       ELSE {None}
    /\ attempt = 0 /\ trace = <<>> /\ root = Unset /\ result = Unset /\ error = ""
    /\ JaccardUnset /\ SimUnset /\ EdgesUnset /\ CrossUnset /\ ThingsUnset /\ RecsUnset

\* Entry of _request_with_retry(url, params, max_retries=arg).
RequestWithRetryEnter(arg) ==
    /\ max_retries' = IF arg = None THEN PyInt(MAX_RETRIES) ELSE arg
    /\ attempt' = 0
    /\ trace' = <<>>
    /\ root' = Unset
    /\ pc' = "retry_loop"

\* _request_with_retry(url, params, max_retries)
RetryCall ==
    /\ pc = "client_call" /\ caller = "_request_with_retry"
    /\ RequestWithRetryEnter(max_retries)
    /\ UNCHANGED <<callVars, thingVars, recVars, jaccardVars, simVars, edgeVars, crossVars>>

\* get_collection: root = _request_with_retry(url, params)
CollectionCall ==
    /\ pc = "client_call" /\ caller = "get_collection"
    /\ RequestWithRetryEnter(None)
    /\ UNCHANGED <<callVars, thingVars, recVars, jaccardVars, simVars, edgeVars, crossVars>>

\* search_games: root = _request_with_retry(url, params, max_retries=SEARCH_MAX_RETRIES)
SearchCall ==
    /\ pc = "client_call" /\ caller = "search_games"
    /\ RequestWithRetryEnter(PyInt(SEARCH_MAX_RETRIES))
    /\ UNCHANGED <<callVars, thingVars, recVars, jaccardVars, simVars, edgeVars, crossVars>>

\* One pass of the loop body: the request, then the return of root, or the
\* sleep the branch makes and the next attempt.
RetryAttemptWith(outcome) ==
    /\ trace' = trace \o <<RequestEvent(outcome)>>
                \o IF SleepsAfter(outcome, attempt, max_retries.v)
                   THEN <<SleepEvent(RetryDelay(attempt))>> ELSE <<>>
    /\ IF Succeeds(outcome)
       THEN /\ root' = outcome.content
            /\ pc' = "retry_returned"
            /\ UNCHANGED attempt
       ELSE /\ attempt' = attempt + 1
            /\ UNCHANGED <<root, pc>>

RetryAttempt ==
    /\ pc = "retry_loop" /\ caller # "get_things"
    /\ InRange(attempt, max_retries.v)
    /\ \E outcome \in Outcomes(ItemsFor(caller)) : RetryAttemptWith(outcome)
    /\ UNCHANGED <<max_retries, callVars, thingVars, recVars,
                   jaccardVars, simVars, edgeVars, crossVars>>

\* The loop is over: log.error and return None.
RetryExhausted ==
    /\ pc = "retry_loop"
    /\ ~InRange(attempt, max_retries.v)
    /\ root' = None
    /\ pc' = "retry_returned"
    /\ UNCHANGED <<max_retries, attempt, trace, callVars, thingVars, recVars,
                   jaccardVars, simVars, edgeVars, crossVars>>

\* The direct call ends with the value of _request_with_retry.
RetryReturn ==
    /\ pc = "retry_returned" /\ caller = "_request_with_retry"
    /\ result' = root
    /\ pc' = "client_done"
    /\ UNCHANGED <<retryVars, error, caller, limit, thingVars, recVars,
                   jaccardVars, simVars, edgeVars, crossVars>>

\* get_collection from "if root is None" to its return.
CollectionReturn ==
    /\ pc = "retry_returned" /\ caller = "get_collection"
    /\ result' = get_collection_result(root)
    /\ pc' = "client_done"
    /\ UNCHANGED <<retryVars, error, caller, limit, thingVars, recVars,
                   jaccardVars, simVars, edgeVars, crossVars>>

\* search_games from "if root is None" to its return.
SearchReturn ==
    /\ pc = "retry_returned" /\ caller = "search_games"
    /\ result' = search_games_result(root, limit)
    /\ pc' = "client_done"
    /\ UNCHANGED <<retryVars, error, caller, limit, thingVars, recVars,
                   jaccardVars, simVars, edgeVars, crossVars>>

NextRetry ==
    \/ RetryCall \/ CollectionCall \/ SearchCall
    \/ RetryAttempt \/ RetryExhausted
    \/ RetryReturn \/ CollectionReturn \/ SearchReturn

SpecRetry == InitRetry /\ [][NextRetry]_vars

\* ------------------------------------------------------------------------
\* bgg.py: _extract_game_details
\* ------------------------------------------------------------------------

\* int(text) of a str: the strings that parse, with their values.
IntStrings == {"2017", "30"}

ParseInt(s) == IF s = "2017" THEN 2017 ELSE IF s = "30" THEN 30 ELSE 0

\* safe_get_int: int(text) if text else 0, and 0 for a text int() rejects.
safe_get_int(text) ==
    IF Truthy(text) /\ text.v \in IntStrings THEN PyInt(ParseInt(text.v)) ELSE PyInt(0)

\* safe_get_float: float(text) if text else 0.0, and 0.0 for a text float() rejects.
safe_get_float(text) ==
    [t |-> "float",
     v |-> IF Truthy(text) /\ text.v \in ParsableStrings THEN ParseFloat(text.v) ELSE FZero]

\* safe_get_int(elem.get("value")) if elem is not None else None
IntOf(item, tag) == IF tag \in DOMAIN item THEN safe_get_int(item[tag]) ELSE None

\* elem.get(attribute, "")
AttrOr(elem, attribute) == IF attribute \in DOMAIN elem THEN elem[attribute] ELSE ""

\* The value of the first primary name; the first name when that is empty.
NameOf(names) ==
    LET primary == SelectSeq(names, LAMBDA n : AttrOr(n, "type") = "primary")
        first == IF primary = <<>> THEN "" ELSE AttrOr(primary[1], "value")
    IN  IF first = "" /\ names # <<>> THEN AttrOr(names[1], "value") ELSE first

\* The rating fields, None unless statistics/ratings and the element exist.
RatingOf(item, tag) ==
    IF "statistics" \in DOMAIN item /\ "ratings" \in DOMAIN item.statistics
       /\ tag \in DOMAIN item.statistics.ratings
    THEN safe_get_float(item.statistics.ratings[tag])
    ELSE None

\* link_obj of a link element
LinkObj(link) == [id |-> AttrOr(link, "id"), name |-> AttrOr(link, "value")]

\* The link objects of one type, in document order.
LinksOf(links, type) ==
    LET chosen == SelectSeq(links, LAMBDA l : AttrOr(l, "type") = type)
    IN  [k \in DOMAIN chosen |-> LinkObj(chosen[k])]

extract_game_details(item) ==
    LET links == GetList(item, "link")
    IN  [id |-> Get(item, "id"),
         name |-> NameOf(GetList(item, "name")),
         description |-> TextOr(item, "description", PyStr("")),
         year |-> IntOf(item, "yearpublished"),
         minplayers |-> IntOf(item, "minplayers"),
         maxplayers |-> IntOf(item, "maxplayers"),
         playingtime |-> IntOf(item, "playingtime"),
         minage |-> IntOf(item, "minage"),
         averagerating |-> RatingOf(item, "average"),
         averageweight |-> RatingOf(item, "averageweight"),
         mechanics |-> LinksOf(links, "boardgamemechanic"),
         categories |-> LinksOf(links, "boardgamecategory"),
         families |-> LinksOf(links, "boardgamefamily"),
         designers |-> LinksOf(links, "boardgamedesigner"),
         publishers |-> LinksOf(links, "boardgamepublisher")]

\* A faulty variant: an item without an id is stored under the key "".
StoreItemAlways(details, item) ==
    DictSet(details, IF Truthy(Get(item, "id")) THEN item.id.v ELSE "",
            extract_game_details(item))

\* The loop body over root.findall("item"): skip an item without an id, else
\* all_details[game_id] = _extract_game_details(item).
StoreItem(details, item) ==
    IF Truthy(Get(item, "id"))
    THEN DictSet(details, item.id.v, extract_game_details(item))
    ELSE details

RECURSIVE StoreItems(_, _)
StoreItems(details, items) ==
    IF items = <<>> THEN details
    ELSE StoreItem(StoreItems(details, SubSeq(items, 1, Len(items) - 1)), items[Len(items)])

\* ------------------------------------------------------------------------
\* get_things, called on a list of ids
\* ------------------------------------------------------------------------

\* The item elements of the thing endpoint.
ThingAzul ==
    [id |-> PyStr("1"),
     name |-> <<[type |-> "alternate", value |-> "Azul (alt)"],
                [type |-> "primary", value |-> "Azul"]>>,
     description |-> PyStr("Tiles"),
     yearpublished |-> PyStr("2017"),
     playingtime |-> PyStr("30"),
     minage |-> PyStr(""),
     statistics |-> [ratings |-> [average |-> PyStr("7.5"), averageweight |-> PyStr("n/a")]],
     link |-> <<[type |-> "boardgamemechanic", id |-> "7", value |-> "Tiles"],
                [type |-> "boardgamefamily", value |-> "Abstract"],
                [type |-> "boardgamemechanic", id |-> "8"],
                [type |-> "boardgameartist", id |-> "9", value |-> "Artist"]>>]

\* Another item with the id of ThingAzul.
ThingAzulAgain ==
    [id |-> PyStr("1"),
     name |-> <<[type |-> "primary", value |-> "Azul, second edition"]>>,
     yearpublished |-> PyStr("soon"),
     statistics |-> [ratings |-> [average |-> PyStr("7.5")]]]

ThingBrass ==
    [id |-> PyStr("2"),
     name |-> <<[type |-> "alternate", value |-> "Brass"], [value |-> "Kohle"]>>,
     minplayers |-> None,
     statistics |-> [other |-> None]]

\* Items without an id attribute and with an empty one.
ThingNoId == [name |-> <<[type |-> "primary", value |-> "Nobody"]>>]

ThingBlankId == [id |-> PyStr(""), yearpublished |-> PyStr("2017")]

ThingDocuments ==
    {Xml(<<>>), Xml(<<ThingAzul>>), Xml(<<ThingBrass, ThingAzulAgain>>),
     Xml(<<ThingNoId, ThingBrass>>), Xml(<<ThingAzul, ThingBlankId, ThingAzulAgain>>)}

\* The outcomes of one request of get_things.
ThingOutcomes ==
    {Response(200, c) : c \in ThingDocuments \cup {NotXml}}
    \cup {Response(202, NotXml), Response(503, NotXml)}
    \cup {Raised("Timeout"), Raised("RequestException")}

\* The longest id list given to get_things, and the ids it is made of.
MaxIds == 3

ThingIdOrder == <<"1", "2", "1", "3", "4">>

\* batch_size: int = 20
DefaultBatchSize == 20

BatchSizeChoices == {1, 2, DefaultBatchSize}

InitThings ==
    /\ pc = "client_call"
    /\ caller = "get_things"
    /\ game_ids \in {SubSeq(ThingIdOrder, 1, n) : n \in 0..MaxIds}
    /\ batch_size \in BatchSizeChoices
    /\ all_details = Unset /\ batches = <<>>
    /\ limit = Unset /\ result = Unset /\ error = "" /\ RetryUnset
    /\ edge_threshold = Unset /\ i = 0 /\ j = 0
    /\ comparisons = 0 /\ evaluated = <<>> /\ edges = Unset
    /\ JaccardUnset /\ SimUnset /\ CrossUnset /\ RecsUnset

\* game_ids[i:i + batch_size]
BatchAt(ids, start, size) ==
    SubSeq(ids, start + 1, IF start + size < Len(ids) THEN start + size ELSE Len(ids))

\* get_things up to the loop: {} for an empty list.
ThingsCall ==
    /\ pc = "client_call" /\ caller = "get_things"
    /\ IF game_ids = <<>>
       THEN /\ result' = EmptyDict
            /\ pc' = "client_done"
            /\ UNCHANGED <<all_details, i>>
       ELSE /\ all_details' = EmptyDict
            /\ i' = 0
            /\ pc' = "things_loop"
            /\ UNCHANGED result
    /\ UNCHANGED <<error, caller, limit, retryVars, batch_size, batches, recVars,
                   edge_threshold, game_ids, j, comparisons, evaluated, edges,
                   jaccardVars, simVars, crossVars>>

\* The loop body up to root = _request_with_retry(url, params).
ThingsBatch ==
    /\ pc = "things_loop"
    /\ i < Len(game_ids)
    /\ RequestWithRetryEnter(None)
    /\ UNCHANGED <<callVars, thingVars, recVars, jaccardVars, simVars, edgeVars, crossVars>>

\* One attempt of the request of a batch.
ThingsAttempt ==
    /\ pc = "retry_loop" /\ caller = "get_things"
    /\ InRange(attempt, max_retries.v)
    /\ \E outcome \in ThingOutcomes : RetryAttemptWith(outcome)
    /\ UNCHANGED <<max_retries, callVars, thingVars, recVars,
                   jaccardVars, simVars, edgeVars, crossVars>>

\* The loop body after the request: a failed batch is skipped, the items of a
\* fetched one are stored, followed by the pause before a further batch.
ThingsBatchDone ==
    /\ pc = "retry_returned" /\ caller = "get_things"
    /\ batches' = Append(batches, [ids |-> BatchAt(game_ids, i, batch_size), root |-> root])
    /\ IF root = None
       THEN UNCHANGED <<all_details, trace>>
       ELSE /\ all_details' = StoreItems(all_details, root.items)
            /\ trace' = IF i + batch_size < Len(game_ids)
                        THEN Append(trace, SleepEvent(FromRatio(1, 2)))
                        ELSE trace
    /\ i' = i + batch_size
    /\ pc' = "things_loop"
    /\ UNCHANGED <<callVars, max_retries, attempt, root, batch_size, recVars,
                   edge_threshold, game_ids, j, comparisons, evaluated, edges,
                   jaccardVars, simVars, crossVars>>

\* return all_details
ThingsReturn ==
    /\ pc = "things_loop"
    /\ i >= Len(game_ids)
    /\ result' = all_details
    /\ pc' = "client_done"
    /\ UNCHANGED <<error, caller, limit, retryVars, thingVars, recVars,
                   jaccardVars, simVars, edgeVars, crossVars>>

NextThings ==
    \/ ThingsCall \/ ThingsBatch \/ ThingsAttempt \/ RetryExhausted
    \/ ThingsBatchDone \/ ThingsReturn

SpecThings == InitThings /\ [][NextThings]_vars

\* ------------------------------------------------------------------------
\* generate_data.py: generate_recommendations
\* ------------------------------------------------------------------------

\* compute_cross_similarities as a function of its arguments.
compute_cross_similarities(owned, candidates, k) ==
    LET nf == normalize_numeric_features(DictMerge(owned, candidates))
        top(owned_id) ==
            LET candidates_with_scores ==
                    CandidatesWithScores(owned_id, owned, candidates, nf, DefaultWeights)
            IN  Take(SortDescByKey(candidates_with_scores,
                                   [n \in DOMAIN candidates_with_scores |->
                                       candidates_with_scores[n].score]), k)
    IN  [keys |-> owned.keys, val |-> [owned_id \in KeySet(owned) |-> top(owned_id)]]

\* The loop body over search_results: a result that is not owned is stored
\* under its id.
AddCandidate(candidates, found, owned_ids) ==
    IF found.id.v \notin owned_ids
    THEN DictSet(candidates, found.id.v,
                 [id |-> found.id, name |-> found.name, year |-> Get(found, "year")])
    ELSE candidates

RECURSIVE AddCandidates(_, _, _)
AddCandidates(candidates, search_results, owned_ids) ==
    IF search_results = <<>> THEN candidates
    ELSE AddCandidate(AddCandidates(candidates,
                                    SubSeq(search_results, 1, Len(search_results) - 1),
                                    owned_ids),
                      search_results[Len(search_results)], owned_ids)

\* A faulty variant: the candidates are never limited.
LimitCandidatesNever(candidates, most) == candidates

\* if len(candidate_games) > max_candidates: keep the first max_candidates keys.
LimitCandidates(candidates, most) ==
    IF Len(candidates.keys) > most
    THEN LET candidate_ids == Take(candidates.keys, most)
         IN  [keys |-> candidate_ids, val |-> [cid \in Range(candidate_ids) |-> candidates.val[cid]]]
    ELSE candidates

\* The item elements the search endpoint sends to generate_recommendations:
\* ids "1" and "2" may be owned, id "3" comes under two names.
FoundAlpha == [id |-> PyStr("1"), name |-> PyStr("Alpha"), yearpublished |-> PyStr("2017")]

FoundDelta == [id |-> PyStr("2"), name |-> PyStr("Delta")]

FoundFoxtrot == [id |-> PyStr("3"), name |-> PyStr("Foxtrot")]

FoundFoxtrotDeluxe ==
    [id |-> PyStr("3"), name |-> PyStr("Foxtrot Deluxe"), yearpublished |-> PyStr("1995")]

FoundGolf == [id |-> PyStr("4"), name |-> PyStr("Golf")]

FoundNameless == [id |-> PyStr("5")]

RecSearchDocuments ==
    {Xml(<<>>), Xml(<<FoundAlpha, FoundFoxtrot>>),
     Xml(<<FoundFoxtrotDeluxe, FoundGolf, FoundDelta>>),
     Xml(<<FoundNameless, FoundGolf, FoundFoxtrot>>),
     Xml(<<FoundDelta, FoundAlpha>>)}

\* What search_games can return for one term.
SearchResults(per_term) ==
    {search_games_result(r, per_term) : r \in RecSearchDocuments \cup {None}}

\* The owned games given to generate_recommendations.
RecOwnedDicts ==
    {EmptyDict,
     [keys |-> <<"1">>, val |-> [id \in {"1"} |-> GameA]],
     [keys |-> <<"1", "2">>, val |-> [id \in {"1", "2"} |-> IF id = "1" THEN GameA ELSE GameD]]}

\* The details of a candidate id as get_things delivers them.
CandidateRecord(id) == IF id = "3" THEN GameF ELSE IF id = "4" THEN GameD ELSE GameA

\* What get_things can return for an id list: the details of every id, of
\* the first id alone, or nothing when every batch failed.
ThingsResults(ids) ==
    {[keys |-> ks, val |-> [id \in Range(ks) |-> CandidateRecord(id)]] :
        ks \in {ids, Take(ids, 1), <<>>}}

\* The most search terms.
MaxTerms == 2

TermOrder == <<"dice", "tiles", "war">>

\* candidates_per_term: int = 15
DefaultCandidatesPerTerm == 15

\* max_candidates: int = 100
DefaultMaxCandidates == 100

InitRecs ==
    /\ pc = "recs_call"
    /\ caller = "generate_recommendations"
    /\ owned_games \in RecOwnedDicts
    /\ search_terms \in {SubSeq(TermOrder, 1, n) : n \in 0..MaxTerms}
    /\ candidates_per_term \in {1, DefaultCandidatesPerTerm}
    /\ max_candidates \in {0, 1, 2, DefaultMaxCandidates}
    /\ candidate_games = EmptyDict /\ term_index = 0
    /\ searches = <<>> /\ things_calls = <<>> /\ cross_calls = <<>>
    /\ top_k = 0 /\ owned_index = 0 /\ scored = EmptyDict /\ recommendations = Unset
    /\ limit = Unset /\ result = Unset /\ error = ""
    /\ RetryUnset /\ ThingsUnset /\ JaccardUnset /\ SimUnset /\ EdgesUnset

\* generate_recommendations up to the loop over search_terms.
RecsCall ==
    /\ pc = "recs_call"
    /\ candidate_games' = EmptyDict
    /\ term_index' = 0
    /\ pc' = "recs_search"
    /\ UNCHANGED <<callVars, retryVars, thingVars, search_terms, candidates_per_term,
                   max_candidates, searches, things_calls, cross_calls,
                   owned_games, top_k, owned_index, scored, recommendations,
                   jaccardVars, simVars, edgeVars>>

\* The loop body for one term: search_games, then the loop over its results.
RecsSearch ==
    /\ pc = "recs_search"
    /\ term_index < Len(search_terms)
    /\ \E search_results \in SearchResults(candidates_per_term) :
          /\ searches' = Append(searches, search_results)
          /\ candidate_games' = AddCandidates(candidate_games, search_results,
                                              KeySet(owned_games))
    /\ term_index' = term_index + 1
    /\ UNCHANGED <<pc, callVars, retryVars, thingVars, search_terms, candidates_per_term,
                   max_candidates, things_calls, cross_calls,
                   owned_games, top_k, owned_index, scored, recommendations,
                   jaccardVars, simVars, edgeVars>>

\* After the loop: the limit on the candidates.
RecsLimit ==
    /\ pc = "recs_search"
    /\ term_index >= Len(search_terms)
    /\ candidate_games' = LimitCandidates(candidate_games, max_candidates)
    /\ pc' = "recs_limited"
    /\ UNCHANGED <<callVars, retryVars, thingVars, recVars,
                   owned_games, top_k, owned_index, scored, recommendations,
                   jaccardVars, simVars, edgeVars>>

\* if candidate_games: get_things, compute_cross_similarities, return.
RecsFetch ==
    /\ pc = "recs_limited"
    /\ candidate_games # EmptyDict
    /\ things_calls' = Append(things_calls, candidate_games.keys)
    /\ \E candidate_details \in ThingsResults(candidate_games.keys) :
          /\ cross_calls' = Append(cross_calls, candidate_details)
          /\ recommendations' = compute_cross_similarities(owned_games, cross_calls'[1],
                                                           DefaultTopK)
    /\ result' = recommendations'
    /\ pc' = "client_done"
    /\ UNCHANGED <<error, caller, limit, retryVars, thingVars, search_terms,
                   candidates_per_term, max_candidates, term_index, searches,
                   owned_games, candidate_games, top_k, owned_index, scored,
                   jaccardVars, simVars, edgeVars>>

\* else: return {}
RecsNone ==
    /\ pc = "recs_limited"
    /\ candidate_games = EmptyDict
    /\ result' = EmptyDict
    /\ pc' = "client_done"
    /\ UNCHANGED <<error, caller, limit, retryVars, thingVars, recVars, crossVars,
                   jaccardVars, simVars, edgeVars>>

NextRecs == RecsCall \/ RecsSearch \/ RecsLimit \/ RecsFetch \/ RecsNone

SpecRecs == InitRecs /\ [][NextRecs]_vars

\* ------------------------------------------------------------------------
\* Properties
\* ------------------------------------------------------------------------

\* The pair of ids of an evaluated or retained (id1, id2, score) triple.
PairOf(t) == {t[1], t[2]}

\* The position of triple t in the evaluation history.
EvalIndex(t) == CHOOSE k \in DOMAIN evaluated : evaluated[k] = t

\* C1: when compute_similarity_edges returns, every unordered pair of
\* distinct input ids has been evaluated exactly once (and nothing else has),
\* each with the score compute_game_similarity gives it; an evaluated triple
\* is in the edge list iff its score >= edge_threshold; every edge has two
\* distinct endpoints that are input ids, and no pair appears twice.
C1_EdgesAreThePairsAtOrAboveThreshold ==
    pc = "edges_done" =>
        LET ids == KeySet(games)
        IN /\ \A a \in ids, b \in ids :
                a # b => Cardinality({k \in DOMAIN evaluated : PairOf(evaluated[k]) = {a, b}}) = 1
           /\ \A k \in DOMAIN evaluated :
                /\ evaluated[k][1] # evaluated[k][2]
                /\ PairOf(evaluated[k]) \subseteq ids
                /\ evaluated[k][3] =
                     compute_game_similarity(games.val[evaluated[k][1]], games.val[evaluated[k][2]],
                                             normalized_features[evaluated[k][1]],
                                             normalized_features[evaluated[k][2]], weights)
                /\ FGe(evaluated[k][3], edge_threshold) <=> (evaluated[k] \in Range(edges))
           /\ comparisons = Len(evaluated)
           /\ \A e \in DOMAIN edges :
                /\ edges[e] \in Range(evaluated)
                /\ edges[e][1] # edges[e][2]
                /\ PairOf(edges[e]) \subseteq ids
                /\ \A e2 \in DOMAIN edges : e2 # e => PairOf(edges[e2]) # PairOf(edges[e])

\* C1 witness: three games, one pair retained and one pair dropped.
C1_Witness ==
    /\ pc = "edges_done"
    /\ Len(game_ids) = 3
    /\ Len(evaluated) = 3
    /\ Len(edges) \in {1, 2}

\* C2: the score of compute_game_similarity is within [0, 1].
C2_ScoreInUnitInterval ==
    pc = "similarity_done" => FGe(similarity, FZero) /\ FLe(similarity, FOne)

\* The three games A, B, C of the example of C3: the pairs are evaluated in
\* the order AB, AC, BC; AB is retained, BC is dropped, AC scores above AB.
C3_Example ==
    /\ Len(game_ids) = 3
    /\ Len(evaluated) = 3
    /\ edge_threshold = DefaultEdgeThreshold
    /\ PairOf(evaluated[1]) = {game_ids[1], game_ids[2]}
    /\ PairOf(evaluated[2]) = {game_ids[1], game_ids[3]}
    /\ PairOf(evaluated[3]) = {game_ids[2], game_ids[3]}
    /\ FGe(evaluated[1][3], edge_threshold)
    /\ FLt(evaluated[3][3], edge_threshold)
    /\ FGt(evaluated[2][3], evaluated[1][3])

\* C3: the returned edge list is ordered by score non-increasing, edges of
\* equal score keep the order in which their pairs were enumerated, and in
\* the example the output is exactly [(A, C, s_AC), (A, B, s_AB)].
C3_EdgesSortedByScoreStable ==
    pc = "edges_done" =>
        /\ \A e1 \in DOMAIN edges, e2 \in DOMAIN edges :
              e1 < e2 =>
                 /\ FGe(edges[e1][3], edges[e2][3])
                 /\ edges[e1][3] = edges[e2][3] => EvalIndex(edges[e1]) < EvalIndex(edges[e2])
        /\ C3_Example => edges = <<evaluated[2], evaluated[1]>>

\* C3 witness: the example, where the sort moves (A, C) before (A, B).
C3_Witness ==
    /\ pc = "edges_done"
    /\ C3_Example
    /\ edges = <<evaluated[2], evaluated[1]>>

\* The ids of the entries of a recommendation list.
EntryIds(list) == {list[k].id : k \in DOMAIN list}

\* C4: an id that is both an owned and a candidate id is an entry of no
\* owned game's recommendation list.
C4_OwnedCandidateNeverRecommended ==
    pc \in {"cross_loop", "cross_done"} =>
        \A o \in KeySet(recommendations) :
            EntryIds(recommendations.val[o]) \cap KeySet(owned_games) = {}

\* C4 witness: a candidate id is also owned, and some list has an entry.
C4_Witness ==
    /\ pc = "cross_done"
    /\ KeySet(owned_games) \cap KeySet(candidate_games) # {}
    /\ \E o \in KeySet(recommendations) : recommendations.val[o] # <<>>

\* C5: the keys of the returned mapping are exactly the owned ids (in the
\* order of owned_games), and an owned game without eligible candidate has
\* the empty list.
C5_KeysAreTheOwnedIds ==
    pc = "cross_done" =>
        /\ recommendations.keys = owned_games.keys
        /\ DOMAIN recommendations.val = KeySet(owned_games)
        /\ KeySet(candidate_games) \subseteq KeySet(owned_games) =>
              \A o \in KeySet(owned_games) : recommendations.val[o] = <<>>

\* C5 witness: there are candidates, every one of them is owned, and every
\* owned id is a key with the empty list.
C5_Witness ==
    /\ pc = "cross_done"
    /\ candidate_games.keys # <<>>
    /\ KeySet(candidate_games) \subseteq KeySet(owned_games)
    /\ Len(recommendations.keys) = 2
    /\ \A o \in KeySet(owned_games) : recommendations.val[o] = <<>>

Min(a, b) == IF a < b THEN a ELSE b

\* C7: every recommendation list has min(top_k, eligible candidates)
\* entries, all of them distinct eligible candidates with their scores,
\* ordered by score non-increasing, and no eligible candidate left out
\* scores strictly above one in the list.
C7_TopKHighestScores ==
    pc = "cross_done" =>
        \A o \in KeySet(owned_games) :
            LET list == recommendations.val[o]
                all == scored.val[o]
            IN /\ EntryIds(all) = KeySet(candidate_games) \ KeySet(owned_games)
               /\ Len(all) = Cardinality(EntryIds(all))
               /\ Len(list) <= top_k
               /\ Len(list) = Min(top_k, Len(all))
               /\ Range(list) \subseteq Range(all)
               /\ Cardinality(EntryIds(list)) = Len(list)
               /\ \A k1 \in DOMAIN list, k2 \in DOMAIN list :
                     k1 < k2 => FGe(list[k1].score, list[k2].score)
               /\ \A x \in Range(all) \ Range(list) :
                     \A k \in DOMAIN list : ~FGt(x.score, list[k].score)

\* C7 witness: an owned game with more than top_k eligible candidates, one
\* of which is left out with a score strictly below the last of the list.
C7_Witness ==
    /\ pc = "cross_done"
    /\ \E o \in KeySet(owned_games) :
          LET list == recommendations.val[o]
              all == scored.val[o]
          IN /\ Len(all) > top_k
             /\ Len(list) = top_k
             /\ \E x \in Range(all) \ Range(list) : FLt(x.score, list[Len(list)].score)

LowerCaseSet(names) == {LowerCase(n) : n \in names}

\* The names of the entries of an attribute list that have one, blank or not.
ListedNames(game, attr) ==
    {GetList(game, attr)[k].name :
        k \in {n \in DOMAIN GetList(game, attr) : "name" \in DOMAIN GetList(game, attr)[n]}}

\* C8 as stated: blank names are in neither set, and two games whose
\* attribute names agree up to letter case have component 1.0.
C8_NameSetsIgnoreCase ==
    pc = "similarity_done" =>
        \A at \in Attrs :
            /\ "" \notin names1[at] \cup names2[at]
            /\ LowerCaseSet(names1[at]) = LowerCaseSet(names2[at]) => components[at] = FOne

\* C8 as amended: the sets hold the non-blank names exactly as written
\* (case-sensitive); entries with an empty or missing name contribute
\* nothing; equal sets give component 1.0, disjoint sets that are not both
\* empty give 0.0, so names that differ in letter case only do not match.
C8_NameSetsAreCaseSensitive ==
    pc = "similarity_done" =>
        \A at \in Attrs :
            /\ names1[at] = ListedNames(games.val[id1], at) \ {""}
            /\ names2[at] = ListedNames(games.val[id2], at) \ {""}
            /\ names1[at] = names2[at] => components[at] = FOne
            /\ (names1[at] \cap names2[at] = {} /\ names1[at] \cup names2[at] # {}) =>
                  components[at] = FZero

\* C8 witness: the mechanics of the two games differ in letter case only,
\* one list has a blank and a missing name, and the component is 0.0.
C8_Witness ==
    /\ pc = "similarity_done"
    /\ names1["mechanics"] # names2["mechanics"]
    /\ LowerCaseSet(names1["mechanics"]) = LowerCaseSet(names2["mechanics"])
    /\ "" \in ListedNames(games.val[id1], "mechanics")
    /\ Cardinality(names1["mechanics"]) < Len(games.val[id1].mechanics) - 1
    /\ components["mechanics"] = FZero

\* x is a float nearest to n / d, for 0 <= n <= d and d > 0.
IsNearestFloat(x, n, d) ==
    /\ x.m >= 0
    /\ x.e <= 0
    /\ 2 * Abs(x.m * d - n * Pow2(-x.e)) <= d

\* C9: jaccard_similarity is 1.0 for two empty sets, 0.0 when exactly one
\* is empty, |intersection| / |union| (rounded to a float) otherwise, 1/3
\* for {a, b} and {b, c}, within [0, 1], and symmetric.
C9_JaccardContract ==
    pc = "jaccard_done" =>
        /\ (set1 = {} /\ set2 = {}) => jaccard = FOne
        /\ ((set1 = {}) # (set2 = {})) => jaccard = FZero
        /\ (set1 # {} /\ set2 # {}) =>
              IsNearestFloat(jaccard, Cardinality(set1 \cap set2), Cardinality(set1 \cup set2))
        /\ (set1 = {"Dice", "Cards"} /\ set2 = {"Cards", "Tiles"}) => jaccard = FromRatio(1, 3)
        /\ FGe(jaccard, FZero) /\ FLe(jaccard, FOne)
        /\ jaccard = jaccard_similarity(set2, set1)

\* C9 witness: sim({a, b}, {b, c}) = 1/3.
C9_Witness ==
    /\ pc = "jaccard_done"
    /\ set1 = {"Dice", "Cards"}
    /\ set2 = {"Cards", "Tiles"}
    /\ jaccard = FromRatio(1, 3)

\* C10: after normalize_numeric_features, a feature whose coerced values
\* are identical over the mapping has std 1.0 (never 0) and normalized
\* value 0 for every game.
C10_IdenticalColumnNormalizesToZero ==
    pc \in {"similarity_call", "similarity_done"} =>
        \A f \in DOMAIN feature_names :
            /\ stds[f] # FZero
            /\ (\A k1 \in DOMAIN games.keys, k2 \in DOMAIN games.keys :
                   AllValues(games, f)[k1] = AllValues(games, f)[k2]) =>
                  /\ stds[f] = FOne
                  /\ \A id \in KeySet(games) : normalized_features[id][f] = FZero

\* A numeric field that is absent, None or an unparsable str.
IsMissing(game, feature) ==
    \/ feature \notin DOMAIN game
    \/ game[feature].t = "None"
    \/ game[feature].t = "str" /\ game[feature].v \notin ParsableStrings

\* The game with 0.0 in place of every missing numeric field.
ZeroFilled(game) ==
    [x \in DOMAIN game \cup Range(feature_names) |->
        IF x \in Range(feature_names) /\ IsMissing(game, x) THEN PyFloat(0, 1) ELSE game[x]]

ZeroFilledDict(d) == [keys |-> d.keys, val |-> [k \in KeySet(d) |-> ZeroFilled(d.val[k])]]

\* C11: normalize_numeric_features never raises; it returns a mapping whose
\* keys are the input ids, each with a vector of one entry per feature
\* (seven, in the order of feature_names), and the vectors are those of the
\* mapping with 0.0 in place of every absent, None or unparsable field.
C11_NormalizerIsTotal ==
    /\ pc # "normalizer_raised"
    /\ pc = "normalizer_returned" =>
          /\ DOMAIN normalized_features = KeySet(games)
          /\ \A id \in KeySet(games) : Len(normalized_features[id]) = 7
          /\ normalized_features = normalize_numeric_features(ZeroFilledDict(games))

\* The requests of the trace, in order.
Requests(events) == SelectSeq(events, LAMBDA ev : ev.event = "request")

\* C12: _request_with_retry makes at most max_retries requests, none after
\* the first status 200 with parsable XML, whose document it returns; when
\* max_retries attempts have all failed it returns None and no exception
\* leaves it; get_collection and search_games then return an empty list.
C12_RetryEndsWithinMaxRetries ==
    pc \in {"retry_loop", "retry_returned", "client_done"} =>
        LET reqs == Requests(trace)
            n == Len(reqs)
        IN  /\ n <= max_retries.v \/ n = 0
            /\ \A k \in 1..(n - 1) : ~Succeeds(reqs[k].outcome)
            /\ error = ""
            /\ pc # "retry_loop" =>
                  IF n > 0 /\ Succeeds(reqs[n].outcome)
                  THEN root = reqs[n].outcome.content
                  ELSE root = None /\ n = (IF max_retries.v > 0 THEN max_retries.v ELSE 0)
            /\ (pc = "client_done" /\ root = None
                    /\ caller \in {"get_collection", "search_games"}) => result = <<>>

\* search_games has returned [] after SEARCH_MAX_RETRIES failed requests, one
\* of them a status 200 with unparsable content.
C12_Witness ==
    /\ pc = "client_done" /\ caller = "search_games"
    /\ root = None /\ result = <<>>
    /\ Len(Requests(trace)) = SEARCH_MAX_RETRIES
    /\ \E k \in DOMAIN trace :
           trace[k].event = "request" /\ ExceptionOf(trace[k].outcome) = "ParseError"

\* C15: when _request_with_retry returns, its trace is request, sleep,
\* request, ..., request: one sleep between consecutive attempts, the first
\* of RETRY_DELAY and each later one twice the one before, and no sleep after
\* the last attempt, whether it succeeded or failed.
C15_OneDoublingSleepBetweenAttempts ==
    pc = "retry_returned" =>
        LET n == Len(Requests(trace))
        IN  /\ Len(trace) = (IF n = 0 THEN 0 ELSE 2 * n - 1)
            /\ \A k \in 1..Len(trace) :
                  IF k % 2 = 1 THEN trace[k].event = "request"
                  ELSE /\ trace[k].event = "sleep"
                       /\ trace[k].delay = (IF k = 2 THEN RETRY_DELAY
                                            ELSE FMul(FromInt(2), trace[k - 2].delay))

\* The items of the batches that were fetched, in the order received.
RECURSIVE FetchedItems(_)
FetchedItems(bs) ==
    IF bs = <<>> THEN <<>>
    ELSE LET last == bs[Len(bs)]
         IN  FetchedItems(SubSeq(bs, 1, Len(bs) - 1))
             \o (IF last.root = None THEN <<>> ELSE last.root.items)

\* The batches so far are the consecutive slices of batch_size ids, in order;
\* when get_things has returned every slice has been requested, whatever the
\* batches before it got.
ConsecutiveBatches ==
    /\ \A b \in DOMAIN batches :
          batches[b].ids = BatchAt(game_ids, (b - 1) * batch_size, batch_size)
    /\ pc = "client_done" =>
          Len(batches) = (Len(game_ids) + batch_size - 1) \div batch_size

\* C13 as stated: get_things requests the consecutive batches in order,
\* skips a failed batch and still requests the later ones, raises nothing,
\* and the values of the returned mapping are the details of every item of
\* the fetched batches and nothing else.
C13_DetailsOfEveryFetchedItem ==
    caller = "get_things" =>
        /\ ConsecutiveBatches
        /\ error = ""
        /\ pc = "client_done" =>
              {result.val[k] : k \in KeySet(result)}
                  = {extract_game_details(item) : item \in Range(FetchedItems(batches))}

\* C13, amended: as above, but the mapping holds the items that have a
\* non-empty id, each id mapped to the details of the last fetched item with
\* that id.
C13_DetailsOfLastFetchedItemPerId ==
    caller = "get_things" =>
        /\ ConsecutiveBatches
        /\ error = ""
        /\ pc = "client_done" =>
              LET items == FetchedItems(batches)
                  withId == SelectSeq(items, LAMBDA item : Truthy(Get(item, "id")))
              IN  /\ KeySet(result) = {withId[k].id.v : k \in DOMAIN withId}
                  /\ \A k \in DOMAIN withId :
                        (\A later \in (k + 1)..Len(withId) : withId[later].id # withId[k].id)
                            => result.val[withId[k].id.v] = extract_game_details(withId[k])

\* get_things has returned after a failed batch followed by a fetched batch
\* that holds an item without an id.
C13_Witness ==
    /\ pc = "client_done" /\ caller = "get_things"
    /\ \E b \in DOMAIN batches :
          /\ b > 1
          /\ batches[b - 1].root = None
          /\ batches[b].root # None
          /\ \E k \in DOMAIN batches[b].root.items : "id" \notin DOMAIN batches[b].root.items[k]
    /\ result # EmptyDict

\* The ids of all search results so far, in the order received.
RECURSIVE FoundIds(_)
FoundIds(results) ==
    IF results = <<>> THEN <<>>
    ELSE LET last == results[Len(results)]
         IN  FoundIds(SubSeq(results, 1, Len(results) - 1))
             \o [k \in DOMAIN last |-> last[k].id.v]

\* The ids of a list in the order of their first occurrence.
RECURSIVE FirstOccurrences(_)
FirstOccurrences(ids) ==
    IF ids = <<>> THEN <<>>
    ELSE LET before == FirstOccurrences(SubSeq(ids, 1, Len(ids) - 1))
         IN  IF ids[Len(ids)] \in Range(before) THEN before ELSE Append(before, ids[Len(ids)])

\* The candidates the searches leave: the ids found that are not owned, in
\* the order of their first occurrence, cut to the first max_candidates.
RemainingCandidates ==
    Take(SelectSeq(FirstOccurrences(FoundIds(searches)),
                   LAMBDA id : id \notin KeySet(owned_games)),
         max_candidates)

\* C14: the id list generate_recommendations passes to get_things holds no
\* owned id and at most max_candidates ids, the first max_candidates found
\* in insertion order; when no candidate remains it returns the empty
\* mapping and calls neither get_things nor compute_cross_similarities.
C14_CandidatesPassedToGetThings ==
    caller = "generate_recommendations" =>
        /\ \A c \in DOMAIN things_calls :
              /\ Range(things_calls[c]) \cap KeySet(owned_games) = {}
              /\ Len(things_calls[c]) <= max_candidates
              /\ things_calls[c] = RemainingCandidates
        /\ (pc = "client_done" /\ RemainingCandidates = <<>>) =>
              /\ result = EmptyDict
              /\ things_calls = <<>>
              /\ cross_calls = <<>>
        /\ (pc = "client_done" /\ RemainingCandidates # <<>>) => Len(things_calls) = 1

\* generate_recommendations has returned after searches that found an owned
\* id, the same id twice and more than max_candidates ids that are not owned.
C14_Witness ==
    /\ pc = "client_done" /\ caller = "generate_recommendations"
    /\ Len(things_calls) = 1
    /\ Range(FoundIds(searches)) \cap KeySet(owned_games) # {}
    /\ Len(FirstOccurrences(FoundIds(searches))) < Len(FoundIds(searches))
    /\ Cardinality(Range(FoundIds(searches)) \ KeySet(owned_games)) > max_candidates

\* ------------------------------------------------------------------------
\* All calls
\* ------------------------------------------------------------------------

Init == InitJaccard \/ InitSim \/ InitNormalizer \/ InitEdges \/ InitCross \/ InitRetry \/ InitThings \/ InitRecs

Next == NextJaccard \/ NextSim \/ NextNormalizer \/ NextEdges \/ NextCross \/ NextRetry \/ NextThings \/ NextRecs

Spec == Init /\ [][Next]_vars

====
